---- MODULE Spec2Model ----
(***************************************************************************)
(* Model of the mcdm package: min_max_normalize (normalisation.py),        *)
(* topsis (topsis.py), the rank assignment of plot_country_results_static  *)
(* (visualisation_static.py) and sensitivity_analysis (sensitivity.py).    *)
(*                                                                         *)
(* Numbers.  The code computes in float64.  Here a finite float x is the   *)
(* integer floor(x * Scale) (fixed point, three decimals); the products,   *)
(* quotients and square roots below round down to that grid.  The only     *)
(* non-finite value the modelled code paths can produce is NaN (0/0 in a   *)
(* pandas Series); Series elements are therefore records Num(v) or NaN.    *)
(***************************************************************************)
EXTENDS Integers, Sequences, FiniteSets, TLC

VARIABLES
    data,               \* raw DataFrame handed to min_max_normalize
    norm_data,          \* caller's normalized DataFrame
    weights,            \* caller's weight tree (nested dict)
    criteria_type_col,  \* third argument of topsis
    delta,              \* third argument of sensitivity_analysis
    pc,                 \* position of the calling script
    locals,             \* local variables of the last topsis call
    scores_df,          \* DataFrame returned by the last topsis call
    merged,             \* plot_country_results_static: scores with Rank
    leaf,               \* sensitivity_analysis: index of the current leaf
    base_scores,        \* sensitivity_analysis: base TOPSIS scores
    results,            \* sensitivity_analysis: results dict
    calls,              \* weight trees sensitivity_analysis passed to topsis
    ret,                \* value returned by sensitivity_analysis
    before,             \* the script's earlier scores, kept when it scores again
    weights_dict,       \* named pairwise matrices handed to ahp_weights
    final_weights,      \* ahp_weights: the dict being filled
    sheet,              \* ahp_weights: index of the current matrix
    ahp_locals,         \* ahp_weights: locals of the last loop pass
    ahp_ret,            \* value returned by ahp_weights
    csv,                \* cat_config: the configuration CSV as the user left it
    xlsx,               \* cat_config: the sheets of the weights workbook
    categories          \* cat_config: Region -> Category -> sub-categories

monoVars == <<before>>
ahpVars == <<weights_dict, final_weights, sheet, ahp_locals, ahp_ret>>
ioVars == <<csv, xlsx, categories>>

vars == <<data, norm_data, weights, criteria_type_col, delta, pc, locals,
          scores_df, merged, leaf, base_scores, results, calls, ret,
          monoVars, ahpVars, ioVars>>

-----------------------------------------------------------------------------
(* Bounds of the explored inputs *)

MaxObs == 4          \* most observations in a normalized dataset
MaxLeaves == 3       \* most leaves in a weight tree given to sensitivity_analysis

-----------------------------------------------------------------------------
(* Fixed-point floats *)

Scale == 1000
One == Scale
Half == Scale \div 2
Quarter == Scale \div 4

None == "None"

Num(x) == [nan |-> FALSE, v |-> x]
NaN == [nan |-> TRUE, v |-> 0]
IsNaN(f) == f.nan

Mul(a, b) == (a * b) \div Scale

RECURSIVE SqrtSearch(_, _, _)
SqrtSearch(n, lo, hi) ==
    IF lo >= hi THEN lo
    ELSE LET mid == (lo + hi + 1) \div 2
         IN  IF mid * mid <= n THEN SqrtSearch(n, mid, hi)
             ELSE SqrtSearch(n, lo, mid - 1)

\* np.sqrt on the fixed-point grid: sq is a sum of squared grid values
Sqrt(sq) == SqrtSearch(sq, 0, 16 * Scale)

RECURSIVE SumOver(_, _)
SumOver(S, f) ==
    IF S = {} THEN 0
    ELSE LET x == CHOOSE y \in S : TRUE
         IN  f[x] + SumOver(S \ {x}, f)

SetMax(S) == CHOOSE x \in S : \A y \in S : y <= x
SetMin(S) == CHOOSE x \in S : \A y \in S : x <= y

RECURSIVE SortedSeq(_)
SortedSeq(S) ==
    IF S = {} THEN << >>
    ELSE <<SetMin(S)>> \o SortedSeq(S \ {SetMin(S)})

-----------------------------------------------------------------------------
(* Python dicts: insertion-ordered sequences of <<key, value>> *)

DictHas(d, k) == \E i \in DOMAIN d : d[i][1] = k
DictGet(d, k, default) ==
    IF DictHas(d, k) THEN d[CHOOSE i \in DOMAIN d : d[i][1] = k][2]
    ELSE default
DictSet(d, k, v) ==
    IF DictHas(d, k)
    THEN [i \in DOMAIN d |-> IF d[i][1] = k THEN <<k, v>> ELSE d[i]]
    ELSE Append(d, <<k, v>>)

-----------------------------------------------------------------------------
(* DataFrames: sets of rows, a row maps column names to values *)

Row(region, cat, sub, value, cb) ==
    ("Region" :> region) @@ ("Category" :> cat) @@ ("Sub-category" :> sub)
    @@ ("Value" :> value) @@ ("Cost/Benefit" :> cb)

Lower(s) ==
    CASE s = "Cost" -> "cost"
      [] s = "Benefit" -> "benefit"
      [] OTHER -> s

-----------------------------------------------------------------------------
(* normalisation.py *)

GroupOf(df, cat, sub) ==
    {row \in df : row["Category"] = cat /\ row["Sub-category"] = sub}

\* .iloc[0]: the frames are kept in region order
FirstRow(rows) ==
    CHOOSE row \in rows : \A other \in rows : row["Region"] <= other["Region"]

\* faulty variant: the orientation is ignored, every criterion treated as Benefit
NormalizeValue_BenefitOnly(row, group) ==
    LET values == {r["Value"] : r \in group}
        vmax == SetMax(values)
        vmin == SetMin(values)
    IN  IF vmax = vmin THEN One
        ELSE ((row["Value"] - vmin) * Scale) \div (vmax - vmin)

\* faulty variant: a group without variance is given 0.0 instead of 1.0
NormalizeValue_ConstantZero(row, group) ==
    LET values == {r["Value"] : r \in group}
        vmax == SetMax(values)
        vmin == SetMin(values)
        ctype == FirstRow(group)["Cost/Benefit"]
    IN  IF vmax = vmin THEN 0
        ELSE IF Lower(ctype) = "cost"
             THEN ((vmax - row["Value"]) * Scale) \div (vmax - vmin)
             ELSE ((row["Value"] - vmin) * Scale) \div (vmax - vmin)

NormalizeValue(row, group) ==
    LET values == {r["Value"] : r \in group}
        vmax == SetMax(values)
        vmin == SetMin(values)
        ctype == FirstRow(group)["Cost/Benefit"]
    IN  IF vmax = vmin THEN One
        ELSE IF Lower(ctype) = "cost"
             THEN ((vmax - row["Value"]) * Scale) \div (vmax - vmin)
             ELSE ((row["Value"] - vmin) * Scale) \div (vmax - vmin)

\* lines 22-25, one str.replace: every occurrence of the character old
RECURSIVE str_replace(_, _, _)
str_replace(s, old, new) ==
    IF s = "" THEN ""
    ELSE (IF SubSeq(s, 1, 1) = old THEN new ELSE SubSeq(s, 1, 1))
         \o str_replace(SubSeq(s, 2, Len(s)), old, new)

\* lines 22-25: spaces removed, the decimal comma turned into a point
Cleaned(s) == str_replace(str_replace(s, " ", ""), ",", ".")

DigitChars == {"0", "1", "2", "3", "4", "5", "6", "7", "8", "9"}
DigitValue(c) ==
    CASE c = "0" -> 0 [] c = "1" -> 1 [] c = "2" -> 2 [] c = "3" -> 3
      [] c = "4" -> 4 [] c = "5" -> 5 [] c = "6" -> 6 [] c = "7" -> 7
      [] c = "8" -> 8 [] c = "9" -> 9

AllDigits(s) == \A i \in 1 .. Len(s) : SubSeq(s, i, i) \in DigitChars

RECURSIVE IntValue(_)
IntValue(s) ==
    IF s = "" THEN 0
    ELSE 10 * IntValue(SubSeq(s, 1, Len(s) - 1)) + DigitValue(SubSeq(s, Len(s), Len(s)))

Dots(s) == {i \in 1 .. Len(s) : SubSeq(s, i, i) = "."}

\* pd.to_numeric(errors="raise") accepts the string: digits with at most one
\* decimal point (the explored strings hold no sign and no exponent)
IsNumeric(s) ==
    /\ Cardinality(Dots(s)) <= 1
    /\ AllDigits(str_replace(s, ".", ""))
    /\ str_replace(s, ".", "") # ""

\* the float pd.to_numeric returns, on the grid
to_numeric(s) ==
    IF Dots(s) = {} THEN IntValue(s) * Scale
    ELSE LET d == CHOOSE i \in Dots(s) : TRUE
             frac == SubSeq(SubSeq(s, d + 1, Len(s)) \o "000", 1, 3)
         IN  IntValue(SubSeq(s, 1, d - 1)) * Scale + IntValue(frac)

\* line 26 raises ValueError for a value that is not a number
Parseable(df) == \A row \in df : IsNumeric(Cleaned(row["Value"]))

\* lines 19-27: the Value column as numbers (data holds it as astype(str) leaves it)
Parsed(df) == {("Value" :> to_numeric(Cleaned(row["Value"]))) @@ row : row \in df}

min_max_normalize(df) ==
    LET norm_data_ == Parsed(df)
    IN  {("Value" :> NormalizeValue(row, GroupOf(norm_data_, row["Category"],
                                                  row["Sub-category"])))
            @@ row : row \in norm_data_}

-----------------------------------------------------------------------------
(* topsis.py *)

epsilon == Scale \div 100

\* faulty variant: an unknown criterion is excluded (weight 0) instead of fully counted
get_weight_default0(w, row) ==
    DictGet(DictGet(w, row["Category"], << >>), row["Sub-category"], 0)

get_weight(w, row) ==
    DictGet(DictGet(w, row["Category"], << >>), row["Sub-category"], One)

\* line 44: df = norm_data.copy(); the caller's frame is left as it was
CallerFrame(nd, df) == nd

\* lines 51-52: df['Weight'] = df.apply(get_weight); df['Weighted'] = Value * Weight
WeightedFrame(nd, w) ==
    LET df1 == {("Weight" :> get_weight(w, row)) @@ row : row \in nd}
    IN  {("Weighted" :> Mul(row["Value"], row["Weight"])) @@ row : row \in df1}

CostAdjusted(df, ct) ==
    IF ct = None THEN df
    ELSE {IF Lower(row[ct]) = "cost"
          THEN ("Weighted" :> One - row["Weighted"]) @@ row
          ELSE row : row \in df}

\* faulty variant: the matrix is pivoted on the sub-category alone, so criteria of
\* different categories that share a sub-category name fall into one column
PivotColumns_SubOnly(df) == {<<"", row["Sub-category"]>> : row \in df}

PivotColumns(df) == {<<row["Category"], row["Sub-category"]>> : row \in df}
PivotIndex(df) == {row["Region"] : row \in df}

\* pivot_table(index=Region, columns=[Category, Sub-category], aggfunc=sum, fill_value=0)
Cell(df, region, col) ==
    LET rows == {row \in df : /\ row["Region"] = region
                              /\ row["Category"] = col[1]
                              /\ row["Sub-category"] = col[2]}
        val == [row \in rows |-> row["Weighted"]]
    IN  IF rows = {} THEN 0 ELSE SumOver(rows, val)

PivotTable(df) ==
    [region \in PivotIndex(df) |-> [col \in PivotColumns(df) |-> Cell(df, region, col)]]

Ideal(pivot, cols) == [c \in cols |-> SetMax({pivot[r][c] : r \in DOMAIN pivot})]
AntiIdeal(pivot, cols) == [c \in cols |-> SetMin({pivot[r][c] : r \in DOMAIN pivot})]

Distance(rowvals, target, cols) ==
    LET sq == [c \in cols |-> (rowvals[c] - target[c]) * (rowvals[c] - target[c])]
    IN  Sqrt(SumOver(cols, sq))

\* line 77: dist_to_anti / (dist_to_ideal + dist_to_anti); 0/0 is NaN in a Series
Closeness(dplus, dminus) ==
    IF dplus + dminus = 0 THEN NaN
    ELSE Num((dminus * Scale) \div (dplus + dminus))

\* Series.min() / Series.max(): NaN entries are skipped, NaN when all are NaN
SeriesMin(s) ==
    LET nums == {s[r].v : r \in {x \in DOMAIN s : ~IsNaN(s[x])}}
    IN  IF nums = {} THEN NaN ELSE Num(SetMin(nums))
SeriesMax(s) ==
    LET nums == {s[r].v : r \in {x \in DOMAIN s : ~IsNaN(s[x])}}
    IN  IF nums = {} THEN NaN ELSE Num(SetMax(nums))

\* faulty variant: the scores are rescaled to [0, 1], epsilon left out
Rescale_NoEpsilon(x, smin, smax) ==
    IF IsNaN(x) \/ IsNaN(smin) \/ IsNaN(smax) THEN NaN
    ELSE IF smax.v - smin.v = 0 THEN NaN
    ELSE Num(((x.v - smin.v) * Scale) \div (smax.v - smin.v))

\* lines 81-82 for one element
Rescale(x, smin, smax) ==
    IF IsNaN(x) \/ IsNaN(smin) \/ IsNaN(smax) THEN NaN
    ELSE IF smax.v - smin.v = 0 THEN NaN
    ELSE Num(Mul(((x.v - smin.v) * Scale) \div (smax.v - smin.v), One - epsilon)
             + epsilon)

topsis(nd, w, ct) ==
    LET df == CostAdjusted(WeightedFrame(nd, w), ct)
        df_pivot == PivotTable(df)
        cols == PivotColumns(df)
        ideal == Ideal(df_pivot, cols)
        anti_ideal == AntiIdeal(df_pivot, cols)
        dist_to_ideal == [r \in DOMAIN df_pivot |-> Distance(df_pivot[r], ideal, cols)]
        dist_to_anti == [r \in DOMAIN df_pivot |-> Distance(df_pivot[r], anti_ideal, cols)]
        closeness == [r \in DOMAIN df_pivot |->
                        Closeness(dist_to_ideal[r], dist_to_anti[r])]
        scores == [r \in DOMAIN df_pivot |->
                     Rescale(closeness[r], SeriesMin(closeness), SeriesMax(closeness))]
        index == SortedSeq(DOMAIN df_pivot)
    IN  [norm_data |-> CallerFrame(nd, df),
         weighted |-> WeightedFrame(nd, w),
         df |-> df,
         df_pivot |-> df_pivot,
         ideal |-> ideal,
         anti_ideal |-> anti_ideal,
         closeness |-> closeness,
         scores |-> scores,
         result |-> [i \in DOMAIN index |->
                       ("Region" :> index[i]) @@ ("TOPSIS Score" :> scores[index[i]])]]

-----------------------------------------------------------------------------
(* visualisation_static.py, lines 59-68: Rank of the regions with a valid score *)

\* Series.rank(ascending=False, method="min") of one valid row
RankMin(row, valid_rows) ==
    1 + Cardinality({o \in valid_rows : o["Score"].v > row["Score"].v})

\* the caller renames "TOPSIS Score" to "Score" (examples/quick_start_max.py:23)
plot_rank(sdf) ==
    LET renamed == [i \in DOMAIN sdf |->
                      ("Region" :> sdf[i]["Region"]) @@ ("Score" :> sdf[i]["TOPSIS Score"])]
        valid_rows == {renamed[i] : i \in {j \in DOMAIN renamed : ~IsNaN(renamed[j]["Score"])}}
    IN  [i \in DOMAIN renamed |->
            ("Rank" :> IF renamed[i] \in valid_rows
                       THEN Num(RankMin(renamed[i], valid_rows)) ELSE NaN)
            @@ renamed[i]]

-----------------------------------------------------------------------------
(* sensitivity.py *)

\* weights.items() x sub_dict.items(), in dict order
RECURSIVE Leaves(_)
Leaves(w) ==
    IF w = << >> THEN << >>
    ELSE [i \in DOMAIN w[1][2] |-> <<w[1][1], w[1][2][i][1], w[1][2][i][2]>>]
         \o Leaves(Tail(w))

RECURSIVE SumValues(_)
SumValues(d) == IF d = << >> THEN 0 ELSE d[1][2] + SumValues(Tail(d))

\* f"{category}_{sub_category}_plus"
ResultKey(category, sub_category, direction) ==
    category \o "_" \o sub_category \o "_" \o direction

\* faulty variant: the siblings are not renormalized after the perturbation
Renormalized_None(sub_dict) == sub_dict

\* lines 60-62 / 70-72: total = sum(values); every sibling /= total
Renormalized(sub_dict) ==
    LET total == SumValues(sub_dict)
    IN  [i \in DOMAIN sub_dict |->
            <<sub_dict[i][1], (sub_dict[i][2] * Scale) \div total>>]

\* faulty variant: the scenario edits the caller's tree in place (no deep copy)
Scenario_InPlace(w, category, sub_category, new_weight) ==
    LET perturbed == DictSet(DictGet(w, category, << >>), sub_category, new_weight)
        raised == SumValues(perturbed) = 0
        edited == DictSet(w, category, IF raised THEN perturbed ELSE Renormalized(perturbed))
    IN  [caller |-> edited,
         total |-> SumValues(perturbed),
         raised |-> raised,
         passed |-> IF raised THEN << >> ELSE edited]

\* lines 57-62 / 67-72, one scenario.  caller: the caller's tree afterwards
\* (the scenario works on copy.deepcopy(weights)); total: the renormalization
\* denominator; raised: the weights are Python floats, so a zero total raises
\* ZeroDivisionError; passed: the tree handed to topsis.
Scenario(w, category, sub_category, new_weight) ==
    LET perturbed == DictSet(DictGet(w, category, << >>), sub_category, new_weight)
        raised == SumValues(perturbed) = 0
    IN  [caller |-> w,
         total |-> SumValues(perturbed),
         raised |-> raised,
         passed |-> IF raised THEN << >>
                    ELSE DictSet(w, category, Renormalized(perturbed))]

-----------------------------------------------------------------------------
(* ahp.py.  A pairwise matrix is modelled as the DataFrame of line 53:       *)
(* [index, columns, values], values being the rows of df.values.  The        *)
(* elements of the numpy arrays are records Num(v) or NaN, like a Series.    *)

\* line 53, pd.DataFrame(matrix) of a dict {column: {row label: value}}: the
\* columns are the outer keys, the index the inner keys (the explored dicts
\* list the inner keys of every column in the same order)
pd_DataFrame(matrix) ==
    LET columns == [j \in DOMAIN matrix |-> matrix[j][1]]
        index == IF matrix = << >> THEN << >>
                 ELSE [i \in DOMAIN matrix[1][2] |-> matrix[1][2][i][1]]
    IN  [index |-> index,
         columns |-> columns,
         values |-> [i \in DOMAIN index |-> [j \in DOMAIN matrix |-> matrix[j][2][i][2]]]]

Shape(df) ==
    <<Len(df.values), IF df.values = << >> THEN 0 ELSE Len(df.values[1])>>

\* lines 60-61: the row labels are replaced by the column labels when they differ
Labels(df) == IF df.index = df.columns THEN df.index ELSE df.columns

\* 1 / x on the grid
Recip(x) == (Scale * Scale) \div x

Abs(x) == IF x < 0 THEN -x ELSE x

\* line 66: np.allclose(arr, 1 / arr.T, atol=1e-2); 1/0 is inf, close to nothing finite
allclose_reciprocal(arr) ==
    \A i \in DOMAIN arr : \A j \in DOMAIN arr :
        /\ arr[j][i] # 0
        /\ Abs(arr[i][j] - Recip(arr[j][i])) <= Scale \div 100

RECURSIVE Product(_)
Product(row) == IF row = << >> THEN One ELSE Mul(Product(Tail(row)), Head(row))

\* faulty variant: the product runs down the columns (axis=0)
prod_axis0(arr) ==
    [j \in DOMAIN arr |-> Product([i \in DOMAIN arr |-> arr[i][j]])]

\* np.prod(arr, axis=1)
prod_axis1(arr) == [i \in DOMAIN arr |-> Product(arr[i])]

RECURSIVE PowN(_, _)
PowN(r, n) == IF n = 0 THEN One ELSE Mul(PowN(r, n - 1), r)

\* the greatest r in lo .. hi with r^n <= x
RECURSIVE RootSearch(_, _, _, _)
RootSearch(x, n, lo, hi) ==
    IF lo >= hi THEN lo
    ELSE LET mid == (lo + hi + 1) \div 2
         IN  IF PowN(mid, n) <= x THEN RootSearch(x, n, mid, hi)
             ELSE RootSearch(x, n, lo, mid - 1)

\* x ** (1 / n) for a float64 x: the n-th root of a positive x (it is at most
\* bound, the greatest entry of the matrix), x itself when n = 1, NaN for a
\* negative x and a fractional exponent
Power(x, n, bound) ==
    IF n = 1 THEN Num(x)
    ELSE IF x < 0 THEN NaN
    ELSE Num(RootSearch(x, n, 0, bound))

RECURSIVE SumSeq(_)
SumSeq(xs) == IF xs = << >> THEN 0 ELSE Head(xs) + SumSeq(Tail(xs))

\* line 70
GeomMeans(arr) ==
    LET bound == SetMax({One} \cup {Abs(arr[i][j]) : i \in DOMAIN arr, j \in DOMAIN arr})
        p == prod_axis1(arr)
    IN  [i \in DOMAIN arr |-> Power(p[i], Len(arr), bound)]

\* line 71: geom_means / np.sum(geom_means); NaN spreads through the sum, 0/0 is NaN
NormWeights(geom_means) ==
    LET total == SumSeq([i \in DOMAIN geom_means |-> geom_means[i].v])
    IN  IF (\E i \in DOMAIN geom_means : IsNaN(geom_means[i])) \/ total = 0
        THEN [i \in DOMAIN geom_means |-> NaN]
        ELSE [i \in DOMAIN geom_means |-> Num((geom_means[i].v * Scale) \div total)]

\* lines 63-74 for one square matrix
ahp_pass(df) ==
    LET arr == df.values
        geom_means == GeomMeans(arr)
        norm_weights == NormWeights(geom_means)
    IN  [arr |-> arr,
         warned |-> ~allclose_reciprocal(arr),
         geom_means |-> geom_means,
         norm_weights |-> norm_weights,
         entry |-> [i \in DOMAIN arr |-> <<Labels(df)[i], norm_weights[i]>>]]

-----------------------------------------------------------------------------
(* mcdm_io.py, cat_config.  The CSV file is the sequence of its rows; the    *)
(* weights workbook the sequence of its sheets <<name, frame>>.  Regions are *)
(* numbered (region "A" of the template is region 1).                        *)

SheetNameLen == 25

CsvRow(region, cat, sub, unit, value, cb) ==
    ("Unit" :> unit) @@ Row(region, cat, sub, value, cb)

\* lines 66-95
default_data ==
    << CsvRow(1, "Infrastructure and Accessibility", "Highways", "km", "5", "Cost"),
       CsvRow(1, "Infrastructure and Accessibility", "Railway", "km", "10", "Cost"),
       CsvRow(1, "Infrastructure and Accessibility", "Seaport", "km", "1", "Cost"),
       CsvRow(1, "Infrastructure and Accessibility", "Airport", "km", "15", "Cost"),
       CsvRow(1, "Infrastructure and Accessibility", "Electricity", "MW power", "10", "Benefit"),
       CsvRow(1, "Infrastructure and Accessibility", "Gas Supply", "Max Volume (m3/year)",
              "500000", "Benefit"),
       CsvRow(1, "Infrastructure and Accessibility", "Optical internet", "Yes-1/No-0", "1",
              "Benefit"),
       CsvRow(1, "Market Proximity and Trade", "Distance to Border Crossing Points", "km",
              "15", "Cost"),
       CsvRow(1, "Market Proximity and Trade", "Distance to Main Export Markets", "hours",
              "2", "Cost"),
       CsvRow(1, "Labor Market", "Average Salary", "USD/AZN", "600", "Benefit"),
       CsvRow(1, "Labor Market", "Workforce Density", "thousand people", "50", "Benefit"),
       CsvRow(1, "Labor Market", "Education Level (secondary+tertiary)", "%", "55", "Benefit"),
       CsvRow(1, "Labor Market", "Proximity to Vocational/Universities", "km", "15", "Cost"),
       CsvRow(1, "Land and Property", "Industrial Land Area & Price", "ha / AZN/ha", "20",
              "Benefit"),
       CsvRow(1, "Land and Property", "Existing Industrial Parks", "binary + capacity", "1",
              "Benefit"),
       CsvRow(1, "Land and Property", "Earthquake/Flood/Land Risk Index", "index", "3", "Cost"),
       CsvRow(1, "Economic & Institutional", "Local Government Support", "score", "7",
              "Benefit"),
       CsvRow(1, "Economic & Institutional", "Tax/Custom Incentives", "policy score", "6",
              "Benefit"),
       CsvRow(1, "Economic & Institutional", "Business Establishment Time/Cost", "days / USD",
              "30", "Cost"),
       CsvRow(1, "Economic & Institutional", "Corruption/Perception Index", "index", "5",
              "Cost"),
       CsvRow(1, "Socio-Economic Effects", "Unemployment Level", "%", "7", "Cost"),
       CsvRow(1, "Socio-Economic Effects", "Population Density", "people/km2", "120",
              "Benefit") >>

\* Series.unique().tolist(): the values in order of first appearance
RECURSIVE Unique(_)
Unique(xs) ==
    IF xs = << >> THEN << >>
    ELSE LET front == Unique(SubSeq(xs, 1, Len(xs) - 1))
             last == xs[Len(xs)]
         IN  IF \E i \in DOMAIN front : front[i] = last THEN front ELSE Append(front, last)

\* the elements of xs that are in S, in the order of xs
RECURSIVE Filter(_, _)
Filter(xs, S) ==
    IF xs = << >> THEN << >>
    ELSE (IF Head(xs) \in S THEN <<Head(xs)>> ELSE << >>) \o Filter(Tail(xs), S)

\* the category names of the explored files in the order sorted() gives them
SortedNames ==
    << "Economic & Institutional", "Infrastructure and Accessibility", "Labor Market",
       "Land and Property", "Land and Property Markets", "Market Proximity and Trade",
       "Socio-Economic Effects" >>

\* line 134: sorted(set(df_final["Category"]))
all_cats(df_final) == Filter(SortedNames, {df_final[i]["Category"] : i \in DOMAIN df_final})

\* line 139
subcats(df_final, cat) ==
    LET rows == {i \in DOMAIN df_final : df_final[i]["Category"] = cat}
    IN  Unique([k \in 1 .. Cardinality(rows) |->
                   df_final[CHOOSE i \in rows :
                                Cardinality({j \in rows : j < i}) = k - 1]["Sub-category"]])

\* lines 119-124: categories.setdefault(reg, {}).setdefault(cat, []).append(sub)
RECURSIVE build_categories(_)
build_categories(df_final) ==
    IF df_final = << >> THEN << >>
    ELSE LET sofar == build_categories(SubSeq(df_final, 1, Len(df_final) - 1))
             row == df_final[Len(df_final)]
             of_reg == DictGet(sofar, row["Region"], << >>)
             of_cat == DictGet(of_reg, row["Category"], << >>)
         IN  DictSet(sofar, row["Region"],
                     DictSet(of_reg, row["Category"], Append(of_cat, row["Sub-category"])))

\* lines 127-129: pd.DataFrame(np.eye(n), index=items, columns=items)
create_pairwise_matrix(items) ==
    [index |-> items,
     columns |-> items,
     values |-> [i \in DOMAIN items |-> [j \in DOMAIN items |-> IF i = j THEN One ELSE 0]]]

\* line 141: sheet_name=cat[:25]
to_excel_sheet_name(cat) ==
    SubSeq(cat, 1, IF Len(cat) < SheetNameLen THEN Len(cat) ELSE SheetNameLen)

\* lines 132-141: the sheets written, "General" first
RECURSIVE sub_sheets(_, _)
sub_sheets(df_final, cats) ==
    IF cats = << >> THEN << >>
    ELSE (IF Len(subcats(df_final, Head(cats))) > 1
          THEN << <<to_excel_sheet_name(Head(cats)),
                    create_pairwise_matrix(subcats(df_final, Head(cats)))>> >>
          ELSE << >>)
         \o sub_sheets(df_final, Tail(cats))

workbook(df_final) ==
    << <<"General", create_pairwise_matrix(all_cats(df_final))>> >>
    \o sub_sheets(df_final, all_cats(df_final))

\* line 154: df_final.drop(columns=["Unit"])
drop_unit(df_final) ==
    {[c \in DOMAIN df_final[i] \ {"Unit"} |-> df_final[i][c]] : i \in DOMAIN df_final}

\* the user's judgment j entered in every pair of cells off the diagonal
Filled(df, j) ==
    [df EXCEPT !.values = [i \in DOMAIN df.values |-> [k \in DOMAIN df.values[i] |->
                              IF i = k THEN One ELSE IF i < k THEN j[1] ELSE j[2]]]]

-----------------------------------------------------------------------------
(* Inputs *)

RegionIds == {1, 2, 3}
Vals == {0, Half, One}

\* criteria of the normalized datasets, each with its orientation
DataCols == {<<"A", "C">>, <<"A_B", "C">>}
ColType(col) == IF col = <<"A", "C">> THEN "Benefit" ELSE "Cost"

Cells == RegionIds \X DataCols

\* every non-empty dataset of at most MaxObs observations, one per (region, criterion)
NormDatasets ==
    UNION {[cells -> Vals] : cells \in {c \in SUBSET Cells : c # {} /\ Cardinality(c) <= MaxObs}}

FrameOf(obs) ==
    {Row(cell[1], cell[2][1], cell[2][2], obs[cell], ColType(cell[2])) : cell \in DOMAIN obs}

\* raw datasets: two regions, one criterion, raw values in raw units
RawVals == {"10", "15", "20"}
RawDatasets ==
    {{Row(1, "A", "Distance", v1, cb), Row(2, "A", "Distance", v2, cb)} :
        <<v1, v2, cb>> \in RawVals \X RawVals \X {"Cost", "Benefit"}}

\* weight trees: empty; both criteria weighted; category "A_B" absent;
\* sub-category "C" absent from "A"; the literal scenario's tree
TopsisTrees ==
    { << >>,
      << <<"A", << <<"C", Quarter>>, <<"B_C", 3 * Quarter>> >> >>,
         <<"A_B", << <<"C", One>> >> >> >>,
      << <<"A", << <<"C", Quarter>>, <<"B_C", 3 * Quarter>> >> >> >>,
      << <<"A", << <<"B_C", One>> >> >>,
         <<"A_B", << <<"C", Half>>, <<"B_C", Half>> >> >> >>,
      << <<"A", << <<"B_C", One>> >> >> >>,
      << <<"A", << <<"Distance", One>> >> >> >> }

-----------------------------------------------------------------------------
(* The calling script: normalize, score, rank *)

\* nothing of ahp_weights, cat_config or an earlier scoring has run
NoAhp == [arr |-> << >>, warned |-> FALSE, geom_means |-> << >>,
          norm_weights |-> << >>, entry |-> << >>]
NoBefore == [scores |-> << >>, region |-> 0, old |-> 0, new |-> 0]
NoReturn == [returned |-> FALSE, value |-> << >>]
Unused ==
    /\ before = NoBefore
    /\ weights_dict = << >>
    /\ final_weights = << >>
    /\ sheet = 0
    /\ ahp_locals = NoAhp
    /\ ahp_ret = NoReturn
    /\ csv = {}
    /\ xlsx = << >>
    /\ categories = << >>

NoCall == [norm_data |-> {}, weighted |-> {}, df |-> {}, df_pivot |-> << >>,
           ideal |-> << >>, anti_ideal |-> << >>, closeness |-> << >>,
           scores |-> << >>, result |-> << >>]

Init ==
    /\ \/ /\ data \in RawDatasets
          /\ norm_data = {}
          /\ pc = "raw"
       \/ /\ data = {}
          /\ norm_data \in {FrameOf(obs) : obs \in NormDatasets}
          /\ pc = "normalized"
    /\ weights \in TopsisTrees
    /\ criteria_type_col \in {None, "Cost/Benefit"}
    /\ delta = One \div 10
    /\ locals = NoCall
    /\ scores_df = << >>
    /\ merged = << >>
    /\ leaf = 0
    /\ base_scores = << >>
    /\ results = << >>
    /\ calls = << >>
    /\ ret = None
    /\ Unused

\* norm_data = min_max_normalize(data); ValueError for an unparseable value
Normalize ==
    /\ pc = "raw"
    /\ IF Parseable(data)
       THEN /\ norm_data' = min_max_normalize(data)
            /\ pc' = "normalized"
       ELSE /\ pc' = "error"
            /\ UNCHANGED norm_data
    /\ UNCHANGED <<data, weights, criteria_type_col, delta, locals, scores_df,
                   merged, leaf, base_scores, results, calls, ret>>
    /\ UNCHANGED <<monoVars, ahpVars, ioVars>>

\* scores_df = topsis(norm_data, weights, criteria_type_col)
Topsis ==
    /\ pc = "normalized"
    /\ LET call == topsis(norm_data, weights, criteria_type_col)
       IN  /\ locals' = call
           /\ norm_data' = call.norm_data
           /\ scores_df' = call.result
    /\ pc' = "scored"
    /\ UNCHANGED <<data, weights, criteria_type_col, delta, merged, leaf,
                   base_scores, results, calls, ret>>
    /\ UNCHANGED <<monoVars, ahpVars, ioVars>>

\* plot_country_results_static(country, scores_df), up to the Rank column
PlotRank ==
    /\ pc = "scored"
    /\ merged' = plot_rank(scores_df)
    /\ pc' = "ranked"
    /\ UNCHANGED <<data, norm_data, weights, criteria_type_col, delta, locals,
                   scores_df, leaf, base_scores, results, calls, ret>>
    /\ UNCHANGED <<monoVars, ahpVars, ioVars>>

Next == Normalize \/ Topsis \/ PlotRank

Spec == Init /\ [][Next]_vars

-----------------------------------------------------------------------------
(* sensitivity_analysis(norm_data, weights, delta), one scenario per step *)

SubConfigs ==
    { << <<"C", One>> >>,
      << <<"B_C", One>> >>,
      << <<"C", Quarter>>, <<"B_C", 3 * Quarter>> >>,
      << <<"C", Half>>, <<"B_C", Half>> >>,
      << <<"C", 3 * Quarter>>, <<"B_C", Quarter>> >> }

\* weight trees over the categories "A" and "A_B", each category summing to 1
SensTrees ==
    {t \in {<< <<"A", a>> >> : a \in SubConfigs}
           \cup {<< <<"A_B", b>> >> : b \in SubConfigs}
           \cup {<< <<"A", a>>, <<"A_B", b>> >> : a \in SubConfigs, b \in SubConfigs} :
        Len(Leaves(t)) <= MaxLeaves}

Deltas == {One \div 10, Half, One, One + Half}

SensDatasets ==
    { {Row(1, "A", "C", One, "Benefit"), Row(1, "A", "B_C", 0, "Cost"),
       Row(2, "A", "C", 0, "Benefit"), Row(2, "A", "B_C", One, "Cost"),
       Row(3, "A", "C", Half, "Benefit"), Row(3, "A_B", "C", Half, "Cost")},
      {Row(1, "A", "C", One, "Benefit"), Row(2, "A_B", "B_C", Half, "Cost"),
       Row(3, "A", "B_C", Half, "Cost"), Row(3, "A_B", "C", One, "Cost")} }

SensInit ==
    /\ data = {}
    /\ norm_data \in SensDatasets
    /\ weights \in SensTrees
    /\ criteria_type_col = None
    /\ delta \in Deltas
    /\ pc = "start"
    /\ locals = NoCall
    /\ scores_df = << >>
    /\ merged = << >>
    /\ leaf = 0
    /\ base_scores = << >>
    /\ results = << >>
    /\ calls = << >>
    /\ ret = None
    /\ Unused

\* lines 49-51: base_scores = topsis(norm_data, weights); results = {}
SensStart ==
    /\ pc = "start"
    /\ LET call == topsis(norm_data, weights, None)
       IN  /\ locals' = call
           /\ norm_data' = call.norm_data
           /\ base_scores' = call.result
    /\ results' = << >>
    /\ leaf' = 1
    /\ pc' = IF Leaves(weights) = << >> THEN "return" ELSE "plus"
    /\ UNCHANGED <<data, weights, criteria_type_col, delta, scores_df, merged,
                   calls, ret>>
    /\ UNCHANGED <<monoVars, ahpVars, ioVars>>

\* one scenario of the leaf the loops of lines 54-55 stand at
SensScenario(direction, factor, next_leaf, next_pc) ==
    LET l == Leaves(weights)[leaf]
        category == l[1]
        sub_category == l[2]
        orig_weight == l[3]
        sc == Scenario(weights, category, sub_category, Mul(orig_weight, factor))
        call == topsis(norm_data, sc.passed, None)
    IN  /\ weights' = sc.caller
        /\ IF sc.raised
           THEN /\ pc' = "error"
                /\ UNCHANGED <<norm_data, locals, results, calls, leaf>>
           ELSE /\ calls' = Append(calls, [category |-> category,
                                           sub_category |-> sub_category,
                                           direction |-> direction,
                                           total |-> sc.total,
                                           weights |-> sc.passed])
                /\ locals' = call
                /\ norm_data' = call.norm_data
                /\ results' = DictSet(results,
                                      ResultKey(category, sub_category, direction),
                                      call.result)
                /\ leaf' = next_leaf
                /\ pc' = next_pc
        /\ UNCHANGED <<data, criteria_type_col, delta, scores_df, merged,
                       base_scores, ret>>
        /\ UNCHANGED <<monoVars, ahpVars, ioVars>>

\* lines 56-64
SensPlus ==
    /\ pc = "plus"
    /\ SensScenario("plus", One + delta, leaf, "minus")

\* lines 66-74
SensMinus ==
    /\ pc = "minus"
    /\ SensScenario("minus", One - delta, leaf + 1,
                    IF leaf = Len(Leaves(weights)) THEN "return" ELSE "plus")

\* line 76: return base_scores, results
SensReturn ==
    /\ pc = "return"
    /\ ret' = <<base_scores, results>>
    /\ pc' = "done"
    /\ UNCHANGED <<data, norm_data, weights, criteria_type_col, delta, locals,
                   scores_df, merged, leaf, base_scores, results, calls>>
    /\ UNCHANGED <<monoVars, ahpVars, ioVars>>

SensNext == SensStart \/ SensPlus \/ SensMinus \/ SensReturn

SensSpec == SensInit /\ [][SensNext]_vars

-----------------------------------------------------------------------------
(* Two calls of topsis on datasets that differ in one observation: the       *)
(* second dataset has one region's value for one Benefit criterion raised    *)

\* the dataset with the value of one observation replaced
WithValue(nd, row, v) == (nd \ {row}) \cup {("Value" :> v) @@ row}

MonoInit ==
    /\ data = {}
    /\ norm_data \in {FrameOf(obs) : obs \in NormDatasets}
    /\ weights \in TopsisTrees
    /\ criteria_type_col \in {None, "Cost/Benefit"}
    /\ delta = One \div 10
    /\ pc = "normalized"
    /\ locals = NoCall
    /\ scores_df = << >>
    /\ merged = << >>
    /\ leaf = 0
    /\ base_scores = << >>
    /\ results = << >>
    /\ calls = << >>
    /\ ret = None
    /\ Unused

\* the script keeps the scores, raises one Benefit observation and scores again
Raise ==
    /\ pc = "scored"
    /\ before = NoBefore
    /\ \E row \in norm_data : \E v \in Vals :
          /\ row["Cost/Benefit"] = "Benefit"
          /\ v > row["Value"]
          /\ before' = [scores |-> scores_df, region |-> row["Region"],
                        old |-> row["Value"], new |-> v]
          /\ norm_data' = WithValue(norm_data, row, v)
    /\ pc' = "normalized"
    /\ UNCHANGED <<data, weights, criteria_type_col, delta, locals, scores_df,
                   merged, leaf, base_scores, results, calls, ret>>
    /\ UNCHANGED <<ahpVars, ioVars>>

MonoNext == Topsis \/ Raise

MonoSpec == MonoInit /\ [][MonoNext]_vars

-----------------------------------------------------------------------------
(* final_weights = ahp_weights(weights_dict), one matrix per step *)

MaxItems == 3        \* most items of a pairwise matrix

ItemNames == <<"x", "y", "z", "u", "v">>
Items(n) == SubSeq(ItemNames, 1, n)

DataFrame(index, columns, values) ==
    [index |-> index, columns |-> columns, values |-> values]

\* mcdm_io.py:151, df_sheet.to_dict(): {column: {row label: value}}
to_dict(df) ==
    [j \in DOMAIN df.columns |->
        <<df.columns[j], [i \in DOMAIN df.index |-> <<df.index[i], df.values[i][j]>>]>>]

\* the judgments a user enters above the diagonal, each with the reciprocal
\* entered below it
Judgments == {<<One \div 3, 3 * One>>, <<One, One>>, <<2 * One, Half>>,
              <<3 * One, One \div 3>>}

UpperPairs(n) == {ij \in (1 .. n) \X (1 .. n) : ij[1] < ij[2]}

Judged(n, f) ==
    DataFrame(Items(n), Items(n),
              [i \in 1 .. n |-> [j \in 1 .. n |->
                  IF i = j THEN One
                  ELSE IF i < j THEN f[<<i, j>>][1] ELSE f[<<j, i>>][2]]])

ReciprocalMatrices ==
    UNION {{Judged(n, f) : f \in [UpperPairs(n) -> Judgments]} : n \in 1 .. MaxItems}

\* positive but not reciprocal; row labels differing from the column labels;
\* a single item with a judgment other than 1
WarnedMatrices ==
    { DataFrame(<<"x", "y">>, <<"x", "y">>, << <<One, 2 * One>>, <<2 * One, One>> >>),
      DataFrame(<<"y", "x">>, <<"x", "y">>, << <<One, 2 * One>>, <<Half, One>> >>),
      DataFrame(<<"x">>, <<"x">>, << <<2 * One>> >>) }

\* the identity cat_config writes (left unedited); a zero entry; negative
\* entries; a zero and a negative single item
NonPositiveMatrices ==
    { DataFrame(<<"x", "y">>, <<"x", "y">>, << <<One, 0>>, <<0, One>> >>),
      DataFrame(<<"x", "y">>, <<"x", "y">>, << <<One, 2 * One>>, <<0, One>> >>),
      DataFrame(<<"x", "y">>, <<"x", "y">>, << <<One, -2 * One>>, <<-Half, One>> >>),
      DataFrame(<<"x">>, <<"x">>, << <<0>> >>),
      DataFrame(<<"x">>, <<"x">>, << <<-One>> >>) }

NonSquareMatrices ==
    { DataFrame(<<"x", "y">>, <<"x">>, << <<One>>, <<2 * One>> >>),
      DataFrame(<<"x">>, <<"x", "y">>, << <<One, 2 * One>> >>) }

FirstMatrices ==
    WarnedMatrices \cup NonPositiveMatrices \cup NonSquareMatrices
    \cup {Judged(1, << >>), Judged(2, [ij \in UpperPairs(2) |-> <<2 * One, Half>>])}

AllMatrices == ReciprocalMatrices \cup FirstMatrices

\* a good single item, a good pair, a zero entry, a matrix that is not square
LeadingMatrices ==
    { Judged(1, << >>),
      Judged(2, [ij \in UpperPairs(2) |-> <<2 * One, Half>>]),
      DataFrame(<<"x", "y">>, <<"x", "y">>, << <<One, 2 * One>>, <<0, One>> >>),
      DataFrame(<<"x", "y">>, <<"x">>, << <<One>>, <<2 * One>> >>) }

\* one matrix, or two of which the first is one of a few
WeightsDicts ==
    {<< <<"General", to_dict(m)>> >> : m \in AllMatrices}
    \cup {<< <<"General", to_dict(m1)>>, <<"A", to_dict(m2)>> >> :
              m1 \in LeadingMatrices, m2 \in AllMatrices}
    \cup {<< <<"General", to_dict(m1)>>, <<"A", to_dict(m2)>> >> :
              m1 \in FirstMatrices, m2 \in FirstMatrices}

AhpInit ==
    /\ data = {}
    /\ norm_data = {}
    /\ weights = << >>
    /\ criteria_type_col = None
    /\ delta = One \div 10
    /\ pc = "ahp_start"
    /\ locals = NoCall
    /\ scores_df = << >>
    /\ merged = << >>
    /\ leaf = 0
    /\ base_scores = << >>
    /\ results = << >>
    /\ calls = << >>
    /\ ret = None
    /\ before = NoBefore
    /\ weights_dict \in WeightsDicts
    /\ final_weights = << >>
    /\ sheet = 0
    /\ ahp_locals = NoAhp
    /\ ahp_ret = NoReturn
    /\ csv = {}
    /\ xlsx = << >>
    /\ categories = << >>

\* line 49: final_weights = {}
AhpStart ==
    /\ pc = "ahp_start"
    /\ final_weights' = << >>
    /\ sheet' = 1
    /\ pc' = "ahp_loop"
    /\ UNCHANGED <<data, norm_data, weights, criteria_type_col, delta, locals,
                   scores_df, merged, leaf, base_scores, results, calls, ret>>
    /\ UNCHANGED <<monoVars, weights_dict, ahp_locals, ahp_ret, ioVars>>

\* lines 51-74, one pass of the loop: ValueError for a matrix that is not square
AhpPass ==
    /\ pc = "ahp_loop"
    /\ sheet <= Len(weights_dict)
    /\ LET sheet_name == weights_dict[sheet][1]
           df == pd_DataFrame(weights_dict[sheet][2])
       IN  IF Shape(df)[1] # Shape(df)[2]
           THEN /\ pc' = "error"
                /\ UNCHANGED <<final_weights, sheet, ahp_locals>>
           ELSE /\ ahp_locals' = ahp_pass(df)
                /\ final_weights' = DictSet(final_weights, sheet_name, ahp_pass(df).entry)
                /\ sheet' = sheet + 1
                /\ pc' = pc
    /\ UNCHANGED <<data, norm_data, weights, criteria_type_col, delta, locals,
                   scores_df, merged, leaf, base_scores, results, calls, ret>>
    /\ UNCHANGED <<monoVars, weights_dict, ahp_ret, ioVars>>

\* line 76: return final_weights
AhpReturn ==
    /\ pc = "ahp_loop"
    /\ sheet > Len(weights_dict)
    /\ ahp_ret' = [returned |-> TRUE, value |-> final_weights]
    /\ pc' = "ahp_done"
    /\ UNCHANGED <<data, norm_data, weights, criteria_type_col, delta, locals,
                   scores_df, merged, leaf, base_scores, results, calls, ret>>
    /\ UNCHANGED <<monoVars, weights_dict, final_weights, sheet, ahp_locals, ioVars>>

AhpNext == AhpStart \/ AhpPass \/ AhpReturn

AhpSpec == AhpInit /\ [][AhpNext]_vars

-----------------------------------------------------------------------------
(* norm_data = min_max_normalize(data) on datasets whose observations each   *)
(* carry their own orientation and whose values are written as in the CSV    *)

MaxRawObs == 3       \* most observations in a raw dataset

RawStrings == {"10", "10,0", "20", "1 000,5", "n/a"}
RawCols == {<<"A", "C">>, <<"B", "C">>}
RawCells == RegionIds \X RawCols

\* every non-empty dataset of at most MaxRawObs observations, one per (region, criterion)
RawObservations ==
    UNION {[cells -> RawStrings \X {"Cost", "Benefit"}] :
              cells \in {c \in SUBSET RawCells : c # {} /\ Cardinality(c) <= MaxRawObs}}

RawFrameOf(obs) ==
    {Row(cell[1], cell[2][1], cell[2][2], obs[cell][1], obs[cell][2]) : cell \in DOMAIN obs}

NormInit ==
    /\ data \in {RawFrameOf(obs) : obs \in RawObservations}
    /\ norm_data = {}
    /\ weights = << >>
    /\ criteria_type_col = None
    /\ delta = One \div 10
    /\ pc = "raw"
    /\ locals = NoCall
    /\ scores_df = << >>
    /\ merged = << >>
    /\ leaf = 0
    /\ base_scores = << >>
    /\ results = << >>
    /\ calls = << >>
    /\ ret = None
    /\ Unused

NormNext == Normalize

NormSpec == NormInit /\ [][NormNext]_vars

-----------------------------------------------------------------------------
(* The documented pipeline (examples/quick_start_min.py): cat_config,        *)
(* min_max_normalize, ahp_weights, topsis                                    *)

MaxCats == 2         \* most categories in a CSV file the user writes

\* category names of 12, 25, 26 and 32 characters
CatNames == {"Labor Market", "Land and Property Markets", "Market Proximity and Trade",
             "Infrastructure and Accessibility"}
SubChoices == {<<"C">>, <<"C", "D">>}

RowsOfCat(region, cat, subs) ==
    [k \in DOMAIN subs |->
        CsvRow(region, cat, subs[k], "km", IF region = 1 THEN "10" ELSE "20",
               IF subs[k] = "C" THEN "Benefit" ELSE "Cost")]

RECURSIVE RowsOfRegion(_, _, _)
RowsOfRegion(region, cats, f) ==
    IF cats = << >> THEN << >>
    ELSE RowsOfCat(region, Head(cats), f[Head(cats)]) \o RowsOfRegion(region, Tail(cats), f)

\* a file with two regions and the categories cs, category c with the sub-categories f[c]
FileOf(cs, f) ==
    RowsOfRegion(1, Filter(SortedNames, cs), f) \o RowsOfRegion(2, Filter(SortedNames, cs), f)

CsvFiles ==
    UNION {{FileOf(cs, f) : f \in [cs -> SubChoices]} :
              cs \in {c \in SUBSET CatNames : c # {} /\ Cardinality(c) <= MaxCats}}

\* the tree of floats ahp_weights returned, as topsis reads it
FloatTree(fw) ==
    [i \in DOMAIN fw |->
        <<fw[i][1], [j \in DOMAIN fw[i][2] |-> <<fw[i][2][j][1], fw[i][2][j][2].v>>]>>]

PipeInit ==
    /\ data = {}
    /\ norm_data = {}
    /\ weights = << >>
    /\ criteria_type_col = None
    /\ delta = One \div 10
    /\ pc = "cat_config"
    /\ locals = NoCall
    /\ scores_df = << >>
    /\ merged = << >>
    /\ leaf = 0
    /\ base_scores = << >>
    /\ results = << >>
    /\ calls = << >>
    /\ ret = None
    /\ before = NoBefore
    /\ weights_dict = << >>
    /\ final_weights = << >>
    /\ sheet = 0
    /\ ahp_locals = NoAhp
    /\ ahp_ret = NoReturn
    /\ csv = << >>
    /\ xlsx = << >>
    /\ categories = << >>

scriptVars == <<weights, criteria_type_col, delta, locals, scores_df, merged, leaf,
                base_scores, results, calls, ret>>

\* mcdm_io.py lines 63-110: the template is written and opened for editing
CatConfigTemplate ==
    /\ pc = "cat_config"
    /\ csv' = default_data
    /\ pc' = "csv_open"
    /\ UNCHANGED <<data, norm_data, scriptVars, monoVars, ahpVars, xlsx, categories>>

\* line 110, input(...): the user leaves the template as it is or writes a file
UserEditsCsv ==
    /\ pc = "csv_open"
    /\ csv' \in {csv} \cup CsvFiles
    /\ pc' = "csv_saved"
    /\ UNCHANGED <<data, norm_data, scriptVars, monoVars, ahpVars, xlsx, categories>>

\* lines 112-143: the CSV is read, categories built, the workbook written
CatConfigExport ==
    /\ pc = "csv_saved"
    /\ categories' = build_categories(csv)
    /\ xlsx' = workbook(csv)
    /\ pc' = "xlsx_open"
    /\ UNCHANGED <<data, norm_data, scriptVars, monoVars, ahpVars, csv>>

\* line 144, input(...): the user enters judgments in every sheet
UserAdjustsWeights ==
    /\ pc = "xlsx_open"
    /\ \E j \in Judgments :
          xlsx' = [k \in DOMAIN xlsx |-> <<xlsx[k][1], Filled(xlsx[k][2], j)>>]
    /\ pc' = "xlsx_saved"
    /\ UNCHANGED <<data, norm_data, scriptVars, monoVars, ahpVars, csv, categories>>

\* lines 146-157: categories, weights, data = cat_config()
CatConfigReturn ==
    /\ pc = "xlsx_saved"
    /\ weights_dict' = [k \in DOMAIN xlsx |-> <<xlsx[k][1], to_dict(xlsx[k][2])>>]
    /\ data' = drop_unit(csv)
    /\ pc' = "raw"
    /\ UNCHANGED <<norm_data, scriptVars, monoVars, final_weights, sheet, ahp_locals,
                   ahp_ret, ioVars>>

\* quick_start_min.py line 12; ahp_weights is called next
PipeNormalize ==
    /\ pc = "raw"
    /\ IF Parseable(data)
       THEN /\ norm_data' = min_max_normalize(data)
            /\ pc' = "ahp_start"
       ELSE /\ pc' = "error"
            /\ UNCHANGED norm_data
    /\ UNCHANGED <<data, scriptVars, monoVars, ahpVars, ioVars>>

\* quick_start_min.py line 18: scores_df = topsis(norm_data, final_weights)
PipeTopsis ==
    /\ pc = "ahp_done"
    /\ weights' = FloatTree(ahp_ret.value)
    /\ LET call == topsis(norm_data, FloatTree(ahp_ret.value), None)
       IN  /\ locals' = call
           /\ norm_data' = call.norm_data
           /\ scores_df' = call.result
    /\ pc' = "scored"
    /\ UNCHANGED <<data, criteria_type_col, delta, merged, leaf, base_scores,
                   results, calls, ret>>
    /\ UNCHANGED <<monoVars, ahpVars, ioVars>>

PipeNext ==
    \/ CatConfigTemplate \/ UserEditsCsv \/ CatConfigExport \/ UserAdjustsWeights
    \/ CatConfigReturn \/ PipeNormalize \/ AhpStart \/ AhpPass \/ AhpReturn \/ PipeTopsis

PipeSpec == PipeInit /\ [][PipeNext]_vars

-----------------------------------------------------------------------------
(* Properties of topsis, checked under Spec *)

Scored == pc \in {"scored", "ranked"}

\* the regions of the last call all have the same raw closeness coefficient
\* (d+ + d- = 0 included: the code's coefficient is then 0/0 for every region)
SameCloseness ==
    \A r1, r2 \in DOMAIN locals.closeness : locals.closeness[r1] = locals.closeness[r2]

ScoreOf(region) ==
    scores_df[CHOOSE i \in DOMAIN scores_df : scores_df[i]["Region"] = region]["TOPSIS Score"]

\* C1: whenever all regions of a non-empty dataset have the same raw closeness
\* coefficient, topsis returns exactly 1.0 (never NaN) for every region.
C1_ConstantScore ==
    (Scored /\ SameCloseness) =>
        \A i \in DOMAIN scores_df : scores_df[i]["TOPSIS Score"] = Num(One)

\* C2: every scored region carries a rank, equal to 1 plus the number of
\* regions with a strictly greater score (minimum-rank method, descending).
Greater(a, b) == ~IsNaN(a) /\ ~IsNaN(b) /\ a.v > b.v
C2_MinRank ==
    pc = "ranked" =>
        /\ Len(merged) = Len(scores_df)
        /\ \A i \in DOMAIN merged :
              merged[i]["Rank"] =
                  Num(1 + Cardinality({j \in DOMAIN merged :
                                         Greater(merged[j]["Score"], merged[i]["Score"])}))

\* C3: the literal scenario.  Distance is a Cost criterion, Region1 = 10 and
\* Region2 = 20: min_max_normalize yields 1.0 and 0.0; topsis with weight 1.0
\* yields scores 1.0 and 0.01; the ranks are 1 and 2.
LiteralData ==
    {Row(1, "A", "Distance", "10", "Cost"), Row(2, "A", "Distance", "20", "Cost")}
LiteralWeights == << <<"A", << <<"Distance", One>> >> >> >>
LiteralCall == data = LiteralData /\ weights = LiteralWeights /\ criteria_type_col = None
ValueOf(df, region) == (CHOOSE row \in df : row["Region"] = region)["Value"]
C4_RescaledRange ==
    (Scored /\ ~SameCloseness) =>
        /\ {scores_df[i]["Region"] : i \in DOMAIN scores_df} = DOMAIN locals.closeness
        /\ \A r \in DOMAIN locals.closeness :
              /\ ~IsNaN(locals.closeness[r])
              /\ ~IsNaN(ScoreOf(r))
              /\ ScoreOf(r).v >= One \div 100
              /\ ScoreOf(r).v <= One
              /\ (\A o \in DOMAIN locals.closeness :
                      locals.closeness[o].v <= locals.closeness[r].v)
                    => ScoreOf(r) = Num(One)
              /\ (\A o \in DOMAIN locals.closeness :
                      locals.closeness[o].v >= locals.closeness[r].v)
                    => ScoreOf(r) = Num(One \div 100)
        /\ \A r1, r2 \in DOMAIN locals.closeness :
              locals.closeness[r1].v <= locals.closeness[r2].v
                  => ScoreOf(r1).v <= ScoreOf(r2).v
\* three regions with three different raw coefficients, one strictly between
C4_Witness ==
    /\ Scored
    /\ \E r1, r2, r3 \in DOMAIN locals.closeness :
          /\ ~IsNaN(locals.closeness[r1])
          /\ locals.closeness[r1].v < locals.closeness[r2].v
          /\ locals.closeness[r2].v < locals.closeness[r3].v
          /\ ScoreOf(r2).v > One \div 100 /\ ScoreOf(r2).v < One

\* C9: the weight applied to an observation is the tree's entry for its
\* (category, sub-category); when the category or the sub-category is absent
\* the weight is 1.0, the weighted value (line 52) equals the normalized value,
\* and the observation is kept: it has its cell in the matrix.
HasLeaf(w, cat, sub) ==
    \E i \in DOMAIN w : w[i][1] = cat /\ \E j \in DOMAIN w[i][2] : w[i][2][j][1] = sub
IsLeafWeight(w, cat, sub, x) ==
    \E i \in DOMAIN w :
        w[i][1] = cat /\ \E j \in DOMAIN w[i][2] : w[i][2][j] = <<sub, x>>
Observation(row) == [c \in DOMAIN row \ {"Weight", "Weighted"} |-> row[c]]
Observed(df, region, col) ==
    \E row \in df : /\ row["Region"] = region
                    /\ row["Category"] = col[1]
                    /\ row["Sub-category"] = col[2]
C10_ZeroFill ==
    Scored =>
        LET regions == {row["Region"] : row \in norm_data}
            cols == {<<row["Category"], row["Sub-category"]>> : row \in norm_data}
            pivot == locals.df_pivot
        IN  /\ DOMAIN pivot = regions
            /\ \A r \in regions : DOMAIN pivot[r] = cols
            /\ \A c \in cols :
                  /\ \A r \in regions :
                        locals.anti_ideal[c] <= pivot[r][c] /\ pivot[r][c] <= locals.ideal[c]
                  /\ \E r \in regions : pivot[r][c] = locals.ideal[c]
                  /\ \E r \in regions : pivot[r][c] = locals.anti_ideal[c]
            /\ \A r \in regions : \A c \in cols :
                  ~Observed(norm_data, r, c) =>
                      /\ pivot[r][c] = 0
                      /\ locals.anti_ideal[c] <= 0
                      /\ locals.ideal[c] >= 0
            /\ \A r \in regions :
                  /\ \E i \in DOMAIN scores_df : scores_df[i]["Region"] = r
                  /\ ~SameCloseness => ~IsNaN(ScoreOf(r))
\* a region lacks an observation for a column whose ideal is positive, and
\* the regions get different scores
C10_Witness ==
    /\ Scored
    /\ ~SameCloseness
    /\ \E r \in DOMAIN locals.df_pivot : \E c \in DOMAIN locals.ideal :
          /\ ~Observed(norm_data, r, c)
          /\ locals.ideal[c] > 0
          /\ locals.anti_ideal[c] = 0
          /\ ~IsNaN(ScoreOf(r))

-----------------------------------------------------------------------------
(* Monotonicity of topsis, checked under MonoSpec *)

ScoreIn(sdf, region) ==
    sdf[CHOOSE i \in DOMAIN sdf : sdf[i]["Region"] = region]["TOPSIS Score"]

\* C11: after one region's normalized value for one Benefit criterion has been
\* raised, all other observations and the weights unchanged, that region has
\* a final score and it is not lower than the score it had before.
C11_Monotone ==
    (pc = "scored" /\ before # NoBefore
        /\ ~IsNaN(ScoreIn(before.scores, before.region))) =>
        /\ ~IsNaN(ScoreIn(scores_df, before.region))
        /\ ScoreIn(scores_df, before.region).v
               >= ScoreIn(before.scores, before.region).v

-----------------------------------------------------------------------------
(* Properties of min_max_normalize, checked under NormSpec *)

Key(row) == <<row["Region"], row["Category"], row["Sub-category"]>>
RawRow(row) == CHOOSE raw \in data : Key(raw) = Key(row)
RawNumber(raw) == to_numeric(Cleaned(raw["Value"]))
\* the raw numbers of the observation's (category, sub-category) group
RawGroup(row) ==
    {RawNumber(raw) : raw \in {r \in data : /\ r["Category"] = row["Category"]
                                            /\ r["Sub-category"] = row["Sub-category"]}}
SameObservations ==
    /\ {Key(row) : row \in norm_data} = {Key(raw) : raw \in data}
    /\ Cardinality(norm_data) = Cardinality(data)

\* C14: every value returned for a dataset with parseable values lies in
\* [0, 1], and every observation of a group whose raw values are all equal (a
\* single observation included) gets exactly 1.0, whatever its orientation.
C14_UnitRange ==
    pc = "normalized" =>
        /\ SameObservations
        /\ \A row \in norm_data :
              /\ row["Value"] >= 0 /\ row["Value"] <= One
              /\ Cardinality(RawGroup(row)) = 1 => row["Value"] = One
\* two equal values written differently, of either orientation, in one group,
\* next to a group of a single observation
C14_Witness ==
    /\ pc = "normalized"
    /\ \E r1, r2, r3 \in norm_data :
          /\ Key(r1) # Key(r2)
          /\ r1["Category"] = r2["Category"] /\ r1["Sub-category"] = r2["Sub-category"]
          /\ RawRow(r1)["Value"] # RawRow(r2)["Value"]
          /\ r1["Cost/Benefit"] = "Cost" /\ r2["Cost/Benefit"] = "Benefit"
          /\ r3["Category"] # r1["Category"]
          /\ r1["Value"] = One /\ r2["Value"] = One /\ r3["Value"] = One

\* C15: in a group with max # min an observation of orientation Cost gets
\* (max - value) / (max - min), one of orientation Benefit gets
\* (value - min) / (max - min), min and max taken over its group only, and
\* every observation keeps its orientation.
C15_OwnOrientation ==
    pc = "normalized" =>
        /\ SameObservations
        /\ \A row \in norm_data :
              LET vmax == SetMax(RawGroup(row))
                  vmin == SetMin(RawGroup(row))
                  value == RawNumber(RawRow(row))
              IN  /\ row["Cost/Benefit"] = RawRow(row)["Cost/Benefit"]
                  /\ (vmax # vmin /\ row["Cost/Benefit"] = "Cost") =>
                        row["Value"] = ((vmax - value) * Scale) \div (vmax - vmin)
                  /\ (vmax # vmin /\ row["Cost/Benefit"] = "Benefit") =>
                        row["Value"] = ((value - vmin) * Scale) \div (vmax - vmin)

-----------------------------------------------------------------------------
(* Properties of ahp_weights, checked under AhpSpec *)

\* the k-th supplied matrix as a frame
MatrixOf(k) == pd_DataFrame(weights_dict[k][2])

IsSquare(df) == Shape(df)[1] = Shape(df)[2]
Entries(df) == UNION {{df.values[i][j] : j \in DOMAIN df.values[i]} : i \in DOMAIN df.values}

\* strictly positive, approximately reciprocal (within 0.01)
PositiveReciprocal(df) ==
    /\ IsSquare(df)
    /\ \A e \in Entries(df) : e > 0
    /\ \A i \in DOMAIN df.values : \A j \in DOMAIN df.values :
          Abs(df.values[i][j] * df.values[j][i] - One * One) <= (One \div 100) * df.values[j][i]

\* g is the n-th root of x on the grid
IsRoot(g, x, n) == PowN(g, n) <= x /\ PowN(g + 1, n) > x

\* w is the quotient g / total on the grid
IsQuotient(w, g, total) == w * total <= g * One /\ (w + 1) * total > g * One

\* C12: for a matrix with strictly positive, approximately reciprocal entries,
\* the weights stored under its name are, item by item, the row geometric mean
\* divided by the sum of the rows' geometric means; the returned mapping has for
\* that name one weight per item, each in [0, 1], summing to 1 (up to the
\* rounding of one division per item); a single item gets exactly 1.0.
C12_GeometricMeanWeights ==
    /\ (pc = "ahp_loop" /\ sheet > 1 /\ PositiveReciprocal(MatrixOf(sheet - 1))) =>
          LET df == MatrixOf(sheet - 1)
              n == Len(df.columns)
              g == ahp_locals.geom_means
              total == SumSeq([i \in 1 .. n |-> g[i].v])
              stored == DictGet(final_weights, weights_dict[sheet - 1][1], << >>)
          IN  /\ Len(g) = n /\ Len(stored) = n
              /\ \A i \in 1 .. n :
                    /\ ~IsNaN(g[i])
                    /\ IsRoot(g[i].v, Product(df.values[i]), n)
                    /\ stored[i][1] = df.columns[i]
                    /\ ~IsNaN(stored[i][2])
                    /\ IsQuotient(stored[i][2].v, g[i].v, total)
    /\ pc = "ahp_done" =>
          /\ ahp_ret.returned
          /\ Len(ahp_ret.value) = Len(weights_dict)
          /\ \A k \in DOMAIN weights_dict :
                PositiveReciprocal(MatrixOf(k)) =>
                    LET df == MatrixOf(k)
                        w == DictGet(ahp_ret.value, weights_dict[k][1], << >>)
                    IN  /\ [i \in DOMAIN w |-> w[i][1]] = df.columns
                        /\ \A i \in DOMAIN w :
                              ~IsNaN(w[i][2]) /\ w[i][2].v >= 0 /\ w[i][2].v <= One
                        /\ One - SumSeq([i \in DOMAIN w |-> w[i][2].v])
                              \in 0 .. (Len(w) - 1)
                        /\ Len(w) = 1 => w[1][2] = Num(One)
\* two matrices returned, one of three items whose weights all differ and one
\* of a single item
C12_Witness ==
    /\ pc = "ahp_done"
    /\ \E k1, k2 \in DOMAIN weights_dict :
          /\ PositiveReciprocal(MatrixOf(k1))
          /\ PositiveReciprocal(MatrixOf(k2))
          /\ Len(MatrixOf(k1).columns) = 1
          /\ LET w == DictGet(ahp_ret.value, weights_dict[k2][1], << >>)
             IN  /\ Len(w) = 3
                 /\ w[1][2].v > w[2][2].v /\ w[2][2].v > w[3][2].v /\ w[3][2].v > 0

\* C13: when any supplied matrix is not square or has an entry <= 0,
\* ahp_weights returns no mapping at all, and no weights are ever stored for a
\* matrix with a zero or negative entry.
C13_DomainError ==
    /\ (\E k \in DOMAIN weights_dict :
            \/ ~IsSquare(MatrixOf(k))
            \/ \E e \in Entries(MatrixOf(k)) : e <= 0)
          => ~ahp_ret.returned
    /\ \A k \in DOMAIN weights_dict :
          (\E e \in Entries(MatrixOf(k)) : e <= 0)
              => ~DictHas(ahp_ret.value, weights_dict[k][1])

-----------------------------------------------------------------------------
(* Properties of the pipeline, checked under PipeSpec *)

Returned == pc \notin {"cat_config", "csv_open", "csv_saved", "xlsx_open", "xlsx_saved"}

\* the categories of the returned data that have two or more sub-categories
SeveralSubs ==
    {cat \in {row["Category"] : row \in data} :
        Cardinality({row["Sub-category"] : row \in {r \in data : r["Category"] = cat}}) >= 2}

\* C16: for every category of the dataset with two or more sub-categories,
\* cat_config returns that category's pairwise matrix under the category's
\* name, and topsis takes the weight of each of its observations from the
\* derived tree, never the 1.0 default, whatever the length of the name.
C16_SheetNames ==
    /\ Returned => \A cat \in SeveralSubs : DictHas(weights_dict, cat)
    /\ pc = "scored" =>
          \A row \in locals.weighted :
              row["Category"] \in SeveralSubs =>
                  /\ HasLeaf(weights, row["Category"], row["Sub-category"])
                  /\ IsLeafWeight(weights, row["Category"], row["Sub-category"],
                                  row["Weight"])

-----------------------------------------------------------------------------
(* Properties of sensitivity_analysis, checked under SensSpec *)

\* C5: sensitivity_analysis returns the baseline plus a result mapping with
\* exactly 2 x (number of leaf weights) entries, one per (category,
\* sub-category, direction), whatever characters the names contain.
C5_ResultCount ==
    pc = "done" =>
        /\ ret[1] = base_scores
        /\ Len(ret[2]) = 2 * Len(Leaves(weights))

\* C6: for delta in (0,1), in the tree passed to topsis by either scenario of
\* a leaf the weights of the perturbed category sum to 1 again (up to the
\* rounding of one division per sibling), the perturbed leaf has moved in the
\* scenario's direction, and every other category is as in the base tree.
C6_Renormalized ==
    (delta > 0 /\ delta < One) =>
        \A k \in DOMAIN calls :
            LET c == calls[k]
                siblings == DictGet(c.weights, c.category, << >>)
                orig == DictGet(DictGet(weights, c.category, << >>), c.sub_category, 0)
                new == DictGet(siblings, c.sub_category, 0)
            IN  /\ One - SumValues(siblings) \in 0 .. (Len(siblings) - 1)
                /\ c.direction = "plus" => new >= orig
                /\ c.direction = "minus" => new <= orig
                /\ Len(c.weights) = Len(weights)
                /\ \A i \in DOMAIN weights :
                      /\ c.weights[i][1] = weights[i][1]
                      /\ weights[i][1] # c.category => c.weights[i] = weights[i]
\* a finished analysis of a two-category tree, one scenario of which moved a
\* leaf with a sibling
C6_Witness ==
    /\ pc = "done"
    /\ delta < One
    /\ Len(weights) = 2
    /\ \E k \in DOMAIN calls :
          LET c == calls[k]
              siblings == DictGet(c.weights, c.category, << >>)
          IN  /\ Len(siblings) = 2
              /\ DictGet(siblings, c.sub_category, 0) #
                     DictGet(DictGet(weights, c.category, << >>), c.sub_category, 0)

\* C7: sensitivity_analysis returns nothing when delta >= 1, never renormalizes
\* by a denominator <= 0 and never passes a tree with a zero or negative
\* weight to topsis.
C7_RangeError ==
    /\ delta >= One => (ret = None /\ pc # "done")
    /\ \A k \in DOMAIN calls :
          /\ calls[k].total > 0
          /\ \A i \in DOMAIN Leaves(calls[k].weights) :
                Leaves(calls[k].weights)[i][3] > 0

\* C8: no step of sensitivity_analysis, and no call of topsis it makes,
\* changes the caller's weight tree or normalized dataset.
C8_NoMutation == [][weights' = weights /\ norm_data' = norm_data]_vars
\* a finished analysis that ran at least four scenarios
C8_Witness ==
    /\ pc = "done"
    /\ Len(calls) >= 4
    /\ Len(ret[2]) >= 4

====
